---- MODULE Spec2Model ----
(***************************************************************************)
(* Model of the bridge-control coordinator of flow/envs/bay_bridge/base.py *)
(* (BayBridgeEnv: toll plaza and ramp meter) and of the lane-change        *)
(* controllers of flow/controllers/lane_change_controllers.py.             *)
(*                                                                         *)
(* Time values (toll_wait_time) are counted in ticks: one simulation step  *)
(* is OneStep ticks, so that the fractional waits drawn from the normal    *)
(* distributions are represented.                                          *)
(***************************************************************************)
EXTENDS Integers, Sequences, FiniteSets, TLC

\* ------------------------------------------------------------ constants
NUM_TOLL_LANES == 20
TOLL_BOOTH_AREA == 100
TOLL_SIGNAL_AREA == 120
NUM_RAMP_METERS == 14
RAMP_METER_AREA == 80
LC_MODE_DISABLED == 512

EDGE_BEFORE_TOLL == "gneE3"
EDGE_AFTER_TOLL == "340686911#0.54.0"
EDGE_BEFORE_RAMP_METER == "340686911#0.54.54.0"
EDGE_AFTER_RAMP_METER == "340686911#0.54.54.127.0"
FAST_TRACK_ON == 6..10

TOLL_COLOR == <<255, 0, 255, 0>>
RAMP_COLOR == <<0, 255, 255, 0>>

\* --------------------------------------------------------------- bounds
\* ticks per simulation step
OneStep == 2
\* the modelled draws of a distribution span DrawSpread + 1 tick values
DrawSpread == 1

\* the vehicle ids of the network
Veh == {"V1", "V2"}
\* the lanes the modelled vehicles drive in: a regular and a fast-track lane
VehLanes == {3, 6}
\* colors and lane-change modes vehicles have before any override
OrigColors == {<<255, 255, 255, 255>>}
OrigModes == {1621}

\* draws of max(0, normal(mean, 1 / sim_step)), in ticks
FastDraws == 0..DrawSpread
RegularDraws == (OneStep + 1)..(OneStep + 1 + DrawSpread)
\* draws of abs(normal(mean, 4 / sim_step)) at construction, in ticks
InitDraws == {1, OneStep + 1}

\* The route of a vehicle through the plaza: the places at which a step can
\* observe it, in driving order.  Gone: the vehicle has left the network.
Route ==
    << [edge |-> EDGE_BEFORE_TOLL, pos |-> 100],
       [edge |-> EDGE_BEFORE_TOLL, pos |-> 120],
       [edge |-> EDGE_BEFORE_TOLL, pos |-> 125],
       [edge |-> EDGE_AFTER_TOLL, pos |-> 10],
       [edge |-> EDGE_BEFORE_RAMP_METER, pos |-> 80],
       [edge |-> EDGE_BEFORE_RAMP_METER, pos |-> 90],
       [edge |-> EDGE_AFTER_RAMP_METER, pos |-> 10] >>
Gone == Len(Route) + 1

\* the first place of the edge that follows the edge of place p
RECURSIVE NextEdge(_)
NextEdge(p) ==
    IF p + 1 = Gone THEN Gone
    ELSE IF Route[p + 1].edge # Route[p].edge THEN p + 1
    ELSE NextEdge(p + 1)

VARIABLES
    vehicles,               \* the simulator's live state of every vehicle
    cars_waiting_for_toll,  \* veh_id -> saved lane_change_mode and color
    cars_before_ramp,       \* veh_id -> saved lane_change_mode and color
    toll_wait_time,         \* lane -> remaining red time (ticks)
    tl_state,               \* last signal string pushed
    disable_tb,
    disable_ramp_metering,
    phase,                  \* "sim": the simulator moves; "ctl": additional_command
    calls,                  \* veh_id -> the traci writes of the last additional_command
    tl_calls,               \* the setRedYellowGreenState calls of the last additional_command
    new_tls_state,          \* the string computed by the last toll control (<<>>: none)
    resampled,              \* lane -> the wait drawn for it in the last toll control
    toll_snapshot,          \* veh_id -> mode and color it had when it entered the toll registry
    ramp_snapshot,          \* veh_id -> mode and color it had when it entered the ramp registry
    toll_restores,          \* veh_id -> number of toll restores written so far
    ran,                    \* the controls the last additional_command ran, in order
    tl_light,               \* the string the simulator's toll light was last set to (<<>>: never set)
    lc_in,                  \* the snapshot a lane-change controller is called on
    lc_out                  \* what the controller computed and returned

vars == << vehicles, cars_waiting_for_toll, cars_before_ramp, toll_wait_time,
           tl_state, disable_tb, disable_ramp_metering, phase, calls, tl_calls,
           new_tls_state, resampled, toll_snapshot, ramp_snapshot, toll_restores, ran,
           tl_light,
           lc_in, lc_out >>

\* ------------------------------------------------- the simulator's view
get_ids(veh) == {v \in Veh : veh[v].place # Gone}

get_edge(veh, v) == IF v \in get_ids(veh) THEN Route[veh[v].place].edge ELSE ""

get_position(veh, v) == Route[veh[v].place].pos

get_lane(veh, v) == veh[v].lane

get_lane_change_mode(veh, v) == veh[v].lane_change_mode

getColor(veh, v) == veh[v].color

\* edge_dict[edge][lane]: the vehicles of the network in that edge and lane
edge_dict(veh, edge, lane) ==
    {v \in get_ids(veh) : get_edge(veh, v) = edge /\ get_lane(veh, v) = lane}

\* setColor and setLaneChangeMode of one vehicle, logged in calls
Write(st, vs, by, mode, color) ==
    [st EXCEPT
        !.veh = [v \in Veh |->
            IF v \in vs
            THEN [st.veh[v] EXCEPT !.color = color[v], !.lane_change_mode = mode[v]]
            ELSE st.veh[v]],
        !.calls = [v \in Veh |->
            IF v \in vs
            THEN Append(st.calls[v],
                        [by |-> by, lane_change_mode |-> mode[v], color |-> color[v]])
            ELSE st.calls[v]]]

Remove(reg, vs) == [v \in (DOMAIN reg) \ vs |-> reg[v]]

\* ------------------------------------------------------- toll coordinator
\* mutant: the test of line 176 inverted
WaitDistribution_Swapped(lane) ==
    IF lane \in FAST_TRACK_ON THEN RegularDraws ELSE FastDraws

\* lines 176-188: the distribution a released lane's wait is drawn from
WaitDistribution(lane) == IF lane \notin FAST_TRACK_ON THEN RegularDraws ELSE FastDraws

\* mutant: the edge test of line 168 dropped
TollCarsThatHaveLeft_AnyEdge(st) ==
    {v \in DOMAIN st.cwt : v \in get_ids(st.veh)}

TollCarsThatHaveLeft(st) ==
    {v \in DOMAIN st.cwt : get_edge(st.veh, v) = EDGE_AFTER_TOLL}

TollReleasedLanes(st) == {get_lane(st.veh, v) : v \in TollCarsThatHaveLeft(st)}

\* lines 166-193: restore and drop the vehicles seen on EDGE_AFTER_TOLL, and
\* redraw the wait of their lanes (draw: lane -> the value drawn last for it)
TollRelease(st, draw) ==
    LET left == TollCarsThatHaveLeft(st)
        lanes == TollReleasedLanes(st)
        w == Write(st, left, "toll_release",
                   [v \in left |-> st.cwt[v].lane_change_mode],
                   [v \in left |-> st.cwt[v].color])
    IN  [w EXCEPT
            !.twt = [l \in DOMAIN st.twt |-> IF l \in lanes THEN draw[l] ELSE st.twt[l]],
            !.resampled = [l \in lanes |-> draw[l]],
            !.restores = [v \in Veh |->
                IF v \in left THEN st.restores[v] + 1 ELSE st.restores[v]],
            !.snap = Remove(st.snap, left),
            !.cwt = Remove(st.cwt, left)]

\* mutant: >= for > in line 202
TollNewCars_AtThreshold(st) ==
    {v \in Veh : /\ \E lane \in 0..(NUM_TOLL_LANES - 1) :
                        v \in edge_dict(st.veh, EDGE_BEFORE_TOLL, lane)
                 /\ get_position(st.veh, v) >= TOLL_BOOTH_AREA
                 /\ v \notin DOMAIN st.cwt}

\* lines 202-203: the cars of the toll lanes past TOLL_BOOTH_AREA, not registered
TollNewCars(st) ==
    {v \in Veh : /\ \E lane \in 0..(NUM_TOLL_LANES - 1) :
                        v \in edge_dict(st.veh, EDGE_BEFORE_TOLL, lane)
                 /\ get_position(st.veh, v) > TOLL_BOOTH_AREA
                 /\ v \notin DOMAIN st.cwt}

\* lines 203-214: save mode and color, disable lane changes, mark
TollRegister(st) ==
    LET new == TollNewCars(st)
        saved == [v \in new |->
                    [lane_change_mode |-> get_lane_change_mode(st.veh, v),
                     color |-> getColor(st.veh, v)]]
        w == Write(st, new, "toll_register",
                   [v \in new |-> LC_MODE_DISABLED], [v \in new |-> TOLL_COLOR])
    IN  [w EXCEPT
            !.cwt = [v \in (DOMAIN st.cwt) \cup new |->
                        IF v \in new THEN saved[v] ELSE st.cwt[v]],
            !.snap = [v \in (DOMAIN st.snap) \cup new |->
                        IF v \in new
                        THEN [lane_change_mode |-> st.veh[v].lane_change_mode,
                              color |-> st.veh[v].color]
                        ELSE st.snap[v]]]

\* mutant: every car past the signal threshold, registered before or not
TollWaitingCars_AnyCar(st, lane) ==
    {v \in edge_dict(st.veh, EDGE_BEFORE_TOLL, lane) :
        get_position(st.veh, v) > TOLL_SIGNAL_AREA}

\* lines 215-216: the cars of a lane that were registered before this pass
\* and are past the signal threshold
TollWaitingCars(st, lane) ==
    {v \in edge_dict(st.veh, EDGE_BEFORE_TOLL, lane) :
        /\ get_position(st.veh, v) > TOLL_BOOTH_AREA
        /\ v \in DOMAIN st.cwt
        /\ get_position(st.veh, v) > TOLL_SIGNAL_AREA}

\* mutant: the timer is never decremented
LaneSignal_Frozen(light, wait, ncars) ==
    IF ncars = 0 THEN <<light, wait>>
    ELSE <<IF wait < 0 THEN "G" ELSE "r", wait>>

\* mutant: the timer decremented for every waiting car, below zero too
LaneSignal_Unguarded(light, wait, ncars) ==
    IF ncars = 0 THEN <<light, wait>>
    ELSE <<IF wait - (ncars - 1) * OneStep < 0 THEN "G" ELSE "r",
           wait - ncars * OneStep>>

\* lines 217-221, once per waiting car of the lane: <<light, wait>>
RECURSIVE LaneSignal(_, _, _)
LaneSignal(light, wait, ncars) ==
    IF ncars = 0 THEN <<light, wait>>
    ELSE IF wait < 0
         THEN LaneSignal("G", wait, ncars - 1)
         ELSE LaneSignal("r", wait - OneStep, ncars - 1)

\* lines 195-221: the lane loop (st is the state after the release)
TollLanes(st) ==
    LET sig == [lane \in 0..(NUM_TOLL_LANES - 1) |->
                    LaneSignal("G", st.twt[lane],
                               Cardinality(TollWaitingCars(st, lane)))]
        r == TollRegister(st)
    IN  [r EXCEPT
            !.twt = [lane \in DOMAIN st.twt |-> sig[lane][2]],
            !.computed = [i \in 1..NUM_TOLL_LANES |-> sig[i - 1][1]]]

\* mutant: the comparison of line 225 dropped
TollPush_Always(st) ==
    [st EXCEPT !.tl = st.computed, !.pushes = Append(st.pushes, st.computed),
               !.light = st.computed]

\* mutant: tl_state is updated without the call that sets the light
TollPush_Silent(st) ==
    IF st.computed # st.tl THEN [st EXCEPT !.tl = st.computed] ELSE st

\* lines 223-228: push the string when it differs from tl_state
TollPush(st) ==
    IF st.computed # st.tl
    THEN [st EXCEPT !.tl = st.computed, !.pushes = Append(st.pushes, st.computed),
                    !.light = st.computed]
    ELSE st

\* lines 165-228: release, lane loop, push, each on the state the one
\* before it left
apply_toll_bridge_control(st, draw) ==
    CHOOSE out \in
        {TollPush(l) : l \in {TollLanes(r) : r \in
            {TollRelease([st EXCEPT !.ran = Append(@, "toll")], draw)}}} :
        TRUE

\* ------------------------------------------------------- ramp coordinator
RampCarsThatHaveLeft(st) ==
    {v \in DOMAIN st.cbr : get_edge(st.veh, v) = EDGE_AFTER_RAMP_METER}

\* lines 130-143
RampRelease(st) ==
    LET left == RampCarsThatHaveLeft(st)
        w == Write(st, left, "ramp_release",
                   [v \in left |-> st.cbr[v].lane_change_mode],
                   [v \in left |-> st.cbr[v].color])
    IN  [w EXCEPT !.rsnap = Remove(st.rsnap, left), !.cbr = Remove(st.cbr, left)]

\* lines 145-151: the cars of the ramp lanes past RAMP_METER_AREA that pass
\* the membership test of line 151
RampNewCars(st) ==
    {v \in Veh : /\ \E lane \in 0..(NUM_RAMP_METERS - 1) :
                        v \in edge_dict(st.veh, EDGE_BEFORE_RAMP_METER, lane)
                 /\ get_position(st.veh, v) > RAMP_METER_AREA
                 /\ v \notin DOMAIN st.cwt}

\* lines 152-163
RampRegister(st) ==
    LET new == RampNewCars(st)
        saved == [v \in new |->
                    [lane_change_mode |-> get_lane_change_mode(st.veh, v),
                     color |-> getColor(st.veh, v)]]
        first == new \ DOMAIN st.cbr
        w == Write(st, new, "ramp_register",
                   [v \in new |-> LC_MODE_DISABLED], [v \in new |-> RAMP_COLOR])
    IN  [w EXCEPT
            !.cbr = [v \in (DOMAIN st.cbr) \cup new |->
                        IF v \in new THEN saved[v] ELSE st.cbr[v]],
            !.rsnap = [v \in (DOMAIN st.rsnap) \cup first |->
                        IF v \in first
                        THEN [lane_change_mode |-> st.veh[v].lane_change_mode,
                              color |-> st.veh[v].color]
                        ELSE st.rsnap[v]]]

\* lines 122-163: release, then the lane loop
ramp_meter_lane_change_control(st) ==
    CHOOSE out \in
        {RampRegister(r) : r \in
            {RampRelease([st EXCEPT !.ran = Append(@, "ramp")])}} :
        TRUE

\* ------------------------------------------------ lane-change controllers
\* defaults of StochasticLaneChanger.__init__ and stochastic_lane_changer
speedThreshold == 5
gapBack == 10
gapForward == 5

\* scenario.length, and the max_speed of the controlled vehicle
RingLength == 40
VehMaxSpeed == 30

\* scenario.lanes = 3
LCLanes == 0..2
\* no leader / no follower in a lane (a falsy id)
NoCar == -1
\* the position of the controlled vehicle, and the positions (get_x_by_id)
\* of a lane's leader and follower: near, far, and past the wrap point
ThisPos == RingLength - 10
LeadPositions == {NoCar, 2, RingLength - 8}
TrailPositions == {NoCar, RingLength - 15, RingLength - 5}
\* the mean speed of the cars get_cars returns for a lane
MeanSpeeds == {0, 4, 12}

LCNoCall ==
    [cur |-> 0, thisPos |-> ThisPos, max_speed |-> VehMaxSpeed,
     lead |-> [l \in LCLanes |-> NoCar], trail |-> [l \in LCLanes |-> NoCar],
     mean |-> [l \in LCLanes |-> 0]]
LCNoResult == [by |-> "none", v |-> [l \in LCLanes |-> 0], draw |-> FALSE, lane |-> 0]

\* mutant: the plain difference of the positions
Headway_NoWrap(thisPos, leadPos) == leadPos - thisPos

\* lines 150 (and 286): the gap to the leader along the ring
Headway(thisPos, leadPos) == (leadPos - thisPos) % RingLength

\* lines 151 (and 287): the gap to the follower along the ring
Footway(thisPos, trailPos) == (thisPos - trailPos) % RingLength

\* lines 140-163 (and 276-299): the estimated speed of one lane, given the
\* leader and follower looked up for it
LaneSpeed(in, leadPos, trailPos, lane) ==
    IF leadPos = NoCar \/ trailPos = NoCar
    THEN in.max_speed
    ELSE LET headway == Headway(in.thisPos, leadPos)
             footway == Footway(in.thisPos, trailPos)
         IN  IF headway < gapForward \/ footway < gapBack
             THEN 0
             ELSE in.mean[lane]

\* lines 133-163: the class looks up get_leader / get_follower of the
\* controlled vehicle itself, whatever the lane of the loop
ClassSpeeds(in) ==
    [lane \in LCLanes |-> LaneSpeed(in, in.lead[in.cur], in.trail[in.cur], lane)]

\* lines 269-299: the closure looks up get_leading_car / get_trailing_car
\* of the lane of the loop
ClosureSpeeds(in) ==
    [lane \in LCLanes |-> LaneSpeed(in, in.lead[lane], in.trail[lane], lane)]

\* max(v)
MaxOf(v) == CHOOSE x \in {v[l] : l \in DOMAIN v} : \A l \in DOMAIN v : v[l] <= x

\* mutant: the last index of x
IndexOf_Last(v, x) ==
    CHOOSE l \in DOMAIN v : v[l] = x /\ \A k \in DOMAIN v : v[k] = x => k <= l

\* v.index(x): the first index of x
IndexOf(v, x) ==
    CHOOSE l \in DOMAIN v : v[l] = x /\ \A k \in DOMAIN v : v[k] = x => l <= k

\* mutant: the lane of the lowest estimate is taken for maxl
PreferredLane_Slowest(v) ==
    IndexOf(v, CHOOSE x \in {v[l] : l \in DOMAIN v} : \A l \in DOMAIN v : x <= v[l])

\* lines 165-166: maxl
PreferredLane(v) == IndexOf(v, MaxOf(v))

\* lines 165-177 (and 301-313); below: random.random() < prob
ChooseLane(v, cur, below) ==
    LET maxv == MaxOf(v)
        maxl == PreferredLane(v)
        myv == v[cur]
    IN  IF maxl # cur /\ (maxv - myv) > speedThreshold /\ below
        THEN maxl
        ELSE cur

\* StochasticLaneChanger.get_action
GetActionClass ==
    /\ lc_out.by = "none"
    /\ \E below \in BOOLEAN : \E v \in {ClassSpeeds(lc_in)} :
        lc_out' = [by |-> "StochasticLaneChanger", v |-> v, draw |-> below,
                   lane |-> ChooseLane(v, lc_in.cur, below)]
    /\ UNCHANGED << vehicles, cars_waiting_for_toll, cars_before_ramp,
                    toll_wait_time, tl_state, disable_tb, disable_ramp_metering,
                    phase, calls, tl_calls, new_tls_state, resampled,
                    toll_snapshot, ramp_snapshot, toll_restores, ran, tl_light,
                    lc_in >>

\* the controller returned by stochastic_lane_changer
GetActionClosure ==
    /\ lc_out.by = "none"
    /\ \E below \in BOOLEAN : \E v \in {ClosureSpeeds(lc_in)} :
        lc_out' = [by |-> "stochastic_lane_changer", v |-> v, draw |-> below,
                   lane |-> ChooseLane(v, lc_in.cur, below)]
    /\ UNCHANGED << vehicles, cars_waiting_for_toll, cars_before_ramp,
                    toll_wait_time, tl_state, disable_tb, disable_ramp_metering,
                    phase, calls, tl_calls, new_tls_state, resampled,
                    toll_snapshot, ramp_snapshot, toll_restores, ran, tl_light,
                    lc_in >>

\* lines 145-151: the two gaps of a vehicle that has a leader and a follower
MeasureGaps ==
    /\ lc_out.by = "none"
    /\ lc_out' = [by |-> "gaps",
                  headway |-> Headway(lc_in.thisPos, lc_in.leadPos),
                  footway |-> Footway(lc_in.thisPos, lc_in.trailPos)]
    /\ UNCHANGED << vehicles, cars_waiting_for_toll, cars_before_ramp,
                    toll_wait_time, tl_state, disable_tb, disable_ramp_metering,
                    phase, calls, tl_calls, new_tls_state, resampled,
                    toll_snapshot, ramp_snapshot, toll_restores, ran, tl_light,
                    lc_in >>

\* ------------------------------------- the aggressive lane-change controllers
\* the reverse headway below which a lane change is blocked
AGGRESSIVE_MIN_REVERSE == 5
SAFE_MIN_REVERSE == 8

\* the largest number of lanes of the scenario
MaxLanes == 3

\* forward and reverse headways of a lane, speeds and target velocities
Headways == {10, 20, 30}
ReverseHeadways == {4, 5, 7, 8}
AggSpeeds == {14, 15, 16}
TargetVelocities == {20}

\* Python lists are functions on 0..n-1
PyLen(list) == Cardinality(DOMAIN list)

\* list(range(a, b))
PyRange(a, b) == [i \in 0..(b - a - 1) |-> a + i]

\* list[a:b] for 0 <= a: the bounds are clipped to the length of the list
PySlice(list, a, b) ==
    LET lo == IF a < PyLen(list) THEN a ELSE PyLen(list)
        hi == IF b < PyLen(list) THEN b ELSE PyLen(list)
    IN  [i \in 0..(hi - lo - 1) |-> list[lo + i]]

\* np.argmax: the first index of the largest entry
argmax(list) ==
    CHOOSE i \in DOMAIN list :
        /\ \A k \in DOMAIN list : list[k] <= list[i]
        /\ \A k \in DOMAIN list : k < i => list[k] < list[i]

\* speed < target_velocity * threshold, with the default threshold of 0.75
BelowThresholdVelocity(in) == 100 * in.speed < 75 * in.target_velocity

\* mutant: the reverse headway is not looked at
AggressiveLane_NoRearCheck(in) ==
    IF BelowThresholdVelocity(in) THEN argmax(in.headways) ELSE in.cur

\* AggressiveLaneChanger.get_action
AggressiveLane(in) ==
    IF BelowThresholdVelocity(in)
    THEN LET desired_lane == argmax(in.headways)
         IN  IF in.reverse_headways[desired_lane] < AGGRESSIVE_MIN_REVERSE
             THEN in.cur
             ELSE desired_lane
    ELSE in.cur

\* the first and one past the last lane of the window of SafeAggressiveLaneChanger
WindowStart(in) == IF in.cur - 1 > 0 THEN in.cur - 1 ELSE 0
WindowEnd(in) == (IF in.cur + 1 < in.lanes THEN in.cur + 1 ELSE in.lanes) + 1

\* mutant: every lane of the scenario
available_lanes_All(in) == PyRange(0, in.lanes)

available_lanes(in) == PyRange(WindowStart(in), WindowEnd(in))

available_headways(in) == PySlice(in.headways, WindowStart(in), WindowEnd(in))

SafeDesiredLane(in) == available_lanes(in)[argmax(available_headways(in))]

\* SafeAggressiveLaneChanger.get_action
SafeAggressiveLane(in) ==
    IF BelowThresholdVelocity(in)
    THEN LET desired_lane == SafeDesiredLane(in)
         IN  IF in.reverse_headways[desired_lane] < SAFE_MIN_REVERSE
             THEN in.cur
             ELSE desired_lane
    ELSE in.cur

GetActionAggressive ==
    /\ lc_out.by = "none"
    /\ lc_out' = [by |-> "AggressiveLaneChanger", lane |-> AggressiveLane(lc_in)]
    /\ UNCHANGED << vehicles, cars_waiting_for_toll, cars_before_ramp,
                    toll_wait_time, tl_state, disable_tb, disable_ramp_metering,
                    phase, calls, tl_calls, new_tls_state, resampled,
                    toll_snapshot, ramp_snapshot, toll_restores, ran, tl_light,
                    lc_in >>

GetActionSafeAggressive ==
    /\ lc_out.by = "none"
    /\ lc_out' = [by |-> "SafeAggressiveLaneChanger",
                  lane |-> SafeAggressiveLane(lc_in)]
    /\ UNCHANGED << vehicles, cars_waiting_for_toll, cars_before_ramp,
                    toll_wait_time, tl_state, disable_tb, disable_ramp_metering,
                    phase, calls, tl_calls, new_tls_state, resampled,
                    toll_snapshot, ramp_snapshot, toll_restores, ran, tl_light,
                    lc_in >>

\* ----------------------------------------------------------- the actions
\* the state a call of additional_command starts from (its logs empty)
StepStart ==
    [veh |-> vehicles, cwt |-> cars_waiting_for_toll, cbr |-> cars_before_ramp,
     twt |-> toll_wait_time, tl |-> tl_state,
     calls |-> [v \in Veh |-> <<>>], pushes |-> <<>>, computed |-> <<>>,
     resampled |-> <<>>, snap |-> toll_snapshot, rsnap |-> ramp_snapshot,
     restores |-> toll_restores, ran |-> <<>>, light |-> tl_light]

Draws(st) ==
    {d \in [TollReleasedLanes(st) -> FastDraws \cup RegularDraws] :
        \A l \in DOMAIN d : d[l] \in WaitDistribution(l)}

\* mutant: the ramp control first
additional_command_RampFirst(st, draw) ==
    CHOOSE out \in
        {IF ~disable_tb THEN apply_toll_bridge_control(t, draw) ELSE t :
            t \in {IF ~disable_ramp_metering
                   THEN ramp_meter_lane_change_control(st) ELSE st}} :
        TRUE

\* lines 117-120
additional_command(st, draw) ==
    CHOOSE out \in
        {IF ~disable_ramp_metering THEN ramp_meter_lane_change_control(t) ELSE t :
            t \in {IF ~disable_tb THEN apply_toll_bridge_control(st, draw) ELSE st}} :
        TRUE

AdditionalCommand ==
    /\ phase = "ctl"
    /\ \E start \in {StepStart} : \E draw \in Draws(start) :
        \E e \in {additional_command(start, draw)} :
            /\ vehicles' = e.veh
            /\ cars_waiting_for_toll' = e.cwt
            /\ cars_before_ramp' = e.cbr
            /\ toll_wait_time' = e.twt
            /\ tl_state' = e.tl
            /\ calls' = e.calls
            /\ tl_calls' = e.pushes
            /\ new_tls_state' = e.computed
            /\ resampled' = e.resampled
            /\ toll_snapshot' = e.snap
            /\ ramp_snapshot' = e.rsnap
            /\ toll_restores' = e.restores
            /\ ran' = e.ran
            /\ tl_light' = e.light
    /\ phase' = "sim"
    /\ UNCHANGED <<disable_tb, disable_ramp_metering, lc_in, lc_out>>

\* One simulation step of the external simulator: every vehicle stays, drives
\* on along its edge or into the next edge of its route, or leaves the
\* network; it keeps its lane but for the lane it gets when it enters the
\* edge after the toll.  The traci writes logged for the previous step are
\* dropped.
Moves(v) ==
    LET from == vehicles[v].place
        places == IF from = Gone THEN {Gone} ELSE (from..NextEdge(from)) \cup {Gone}
    IN  {m \in [place : places, lane : VehLanes] :
            m.lane # vehicles[v].lane =>
                /\ m.place # from
                /\ m.place # Gone
                /\ Route[m.place].edge = EDGE_AFTER_TOLL}

SimStep ==
    /\ phase = "sim"
    /\ \E mv \in [Veh -> [place : 1..Gone, lane : VehLanes]] :
        /\ \A v \in Veh : mv[v] \in Moves(v)
        /\ vehicles' = [v \in Veh |->
                [vehicles[v] EXCEPT !.place = mv[v].place, !.lane = mv[v].lane]]
    /\ phase' = "ctl"
    /\ calls' = [v \in Veh |-> <<>>]
    /\ tl_calls' = <<>>
    /\ new_tls_state' = <<>>
    /\ resampled' = <<>>
    /\ ran' = <<>>
    /\ UNCHANGED << cars_waiting_for_toll, cars_before_ramp, toll_wait_time,
                    tl_state, disable_tb, disable_ramp_metering,
                    toll_snapshot, ramp_snapshot, toll_restores, tl_light,
                    lc_in, lc_out >>

\* the state after __init__ (lines 65-83, no additional_params given), with
\* the vehicles of the set present approaching the toll in some lanes
InitWith(present) ==
    /\ vehicles \in {f \in [Veh -> [place : {1, Gone}, lane : VehLanes,
                                     lane_change_mode : OrigModes, color : OrigColors]] :
                        /\ f["V2"].lane = 6
                        /\ \A v \in Veh : f[v].place = 1 <=> v \in present}
    /\ cars_waiting_for_toll = <<>>
    /\ cars_before_ramp = <<>>
    /\ toll_wait_time \in {[l \in 0..(NUM_TOLL_LANES - 1) |-> d] : d \in InitDraws}
    /\ tl_state = <<>>
    /\ phase = "sim"
    /\ calls = [v \in Veh |-> <<>>]
    /\ tl_calls = <<>>
    /\ new_tls_state = <<>>
    /\ resampled = <<>>
    /\ toll_snapshot = <<>>
    /\ ramp_snapshot = <<>>
    /\ toll_restores = [v \in Veh |-> 0]
    /\ ran = <<>>
    /\ tl_light = <<>>

Init ==
    /\ InitWith(Veh)
    /\ disable_tb \in BOOLEAN
    /\ disable_ramp_metering \in BOOLEAN
    /\ lc_in = LCNoCall
    /\ lc_out = LCNoResult

Next == AdditionalCommand \/ SimStep

Spec == Init /\ [][Next]_vars

\* The step loop keeps running, and the simulator keeps every vehicle
\* driving: a vehicle that can still move on eventually does.
Drive(v) == SimStep /\ vehicles'[v].place > vehicles[v].place

FairSpec ==
    /\ InitWith({"V1"})
    /\ disable_tb = FALSE
    /\ disable_ramp_metering = FALSE
    /\ lc_in = LCNoCall
    /\ lc_out = LCNoResult
    /\ [][Next]_vars
    /\ WF_vars(AdditionalCommand)
    /\ \A v \in Veh : SF_vars(Drive(v))

\* A step of the loop: additional_command and the simulator take turns, and
\* each turn flips the phase.
LoopStep == phase' = IF phase = "ctl" THEN "sim" ELSE "ctl"

\* The step loop keeps running; a vehicle may stand where it is for ever.
LoopSpec ==
    /\ InitWith(Veh)
    /\ disable_tb = FALSE
    /\ disable_ramp_metering = FALSE
    /\ lc_in = LCNoCall
    /\ lc_out = LCNoResult
    /\ [][Next]_vars
    /\ WF_phase(LoopStep)

\* The lane-change controllers, called once on any snapshot; the bridge
\* coordinator is idle (no vehicle in the network).
InitLC ==
    /\ InitWith({})
    /\ toll_wait_time[0] = OneStep + 1
    /\ disable_tb = FALSE
    /\ disable_ramp_metering = FALSE
    /\ lc_in \in [cur : LCLanes, thisPos : {ThisPos}, max_speed : {VehMaxSpeed},
                   lead : [LCLanes -> LeadPositions],
                   trail : [LCLanes -> TrailPositions],
                   mean : [LCLanes -> MeanSpeeds]]
    /\ lc_out = LCNoResult

NextLC == GetActionClass \/ GetActionClosure

SpecLC == InitLC /\ [][NextLC]_vars

\* The aggressive controllers, called once on any snapshot of a scenario of
\* up to MaxLanes lanes.
InitAgg ==
    /\ InitWith({})
    /\ toll_wait_time[0] = OneStep + 1
    /\ disable_tb = FALSE
    /\ disable_ramp_metering = FALSE
    /\ \E n \in 1..MaxLanes :
        lc_in \in [lanes : {n}, cur : 0..(n - 1), speed : AggSpeeds,
                   target_velocity : TargetVelocities,
                   headways : [0..(n - 1) -> Headways],
                   reverse_headways : [0..(n - 1) -> ReverseHeadways]]
    /\ lc_out = LCNoResult

NextAgg == GetActionAggressive \/ GetActionSafeAggressive

SpecAgg == InitAgg /\ [][NextAgg]_vars

\* The gaps of the stochastic controller, for a vehicle, a leader and a
\* follower anywhere on the ring.
RingPositions == 0..(RingLength - 1)

InitRing ==
    /\ InitWith({})
    /\ toll_wait_time[0] = OneStep + 1
    /\ disable_tb = FALSE
    /\ disable_ramp_metering = FALSE
    /\ lc_in \in [thisPos : RingPositions, leadPos : RingPositions,
                   trailPos : RingPositions]
    /\ lc_out = LCNoResult

NextRing == MeasureGaps

SpecRing == InitRing /\ [][NextRing]_vars

\* ---------------------------------------------------------------- claims
CallsBy(log, by) == SelectSeq(log, LAMBDA c : c.by = by)

TollStep == phase = "ctl" /\ ~disable_tb
RampStep == phase = "ctl" /\ ~disable_ramp_metering

\* C1: in every toll step, each registered vehicle observed on EDGE_AFTER_TOLL
\* gets the mode and color it had when it was registered written back once
\* and leaves cars_waiting_for_toll; no other vehicle gets a toll restore or
\* leaves the registry; no vehicle is ever restored a second time.
C1_RestoredOnceWhenPast ==
    [][TollStep =>
        \A v \in Veh :
            LET due == /\ v \in DOMAIN cars_waiting_for_toll
                       /\ get_edge(vehicles, v) = EDGE_AFTER_TOLL
                rel == CallsBy(calls'[v], "toll_release")
            IN  /\ due =>
                    /\ Len(rel) = 1
                    /\ rel[1].lane_change_mode = toll_snapshot[v].lane_change_mode
                    /\ rel[1].color = toll_snapshot[v].color
                    /\ vehicles'[v].lane_change_mode = toll_snapshot[v].lane_change_mode
                    /\ vehicles'[v].color = toll_snapshot[v].color
                    /\ v \notin DOMAIN cars_waiting_for_toll'
                /\ ~due =>
                    /\ Len(rel) = 0
                    /\ v \in DOMAIN cars_waiting_for_toll
                            => v \in DOMAIN cars_waiting_for_toll'
                /\ toll_restores'[v] <= 1]_vars

C1_Witness ==
    \E v \in Veh :
        /\ Len(CallsBy(calls[v], "toll_release")) = 1
        /\ v \notin DOMAIN cars_waiting_for_toll
        /\ get_edge(vehicles, v) = EDGE_AFTER_TOLL
        /\ vehicles[v].color \in OrigColors
        /\ vehicles[v].lane_change_mode \in OrigModes
        /\ toll_restores[v] = 1


\* C7: in every toll step the computed string has one character per toll
\* lane, each "G" or "r"; setRedYellowGreenState is called (once, with that
\* string) exactly when the string differs from tl_state, and tl_state is
\* the computed string afterwards, so an equal string in the next step
\* causes no second push.
C7_PushOnlyOnChange ==
    [][TollStep =>
        /\ Len(new_tls_state') = NUM_TOLL_LANES
        /\ \A i \in 1..Len(new_tls_state') : new_tls_state'[i] \in {"G", "r"}
        /\ (new_tls_state' # tl_state) <=> (tl_calls' # <<>>)
        /\ tl_calls' \in {<<>>, <<new_tls_state'>>}
        /\ tl_state' = new_tls_state']_vars

\* a step that computed a string with a red lane and pushed nothing
C7_Witness ==
    /\ Len(new_tls_state) = NUM_TOLL_LANES
    /\ \E i \in 1..Len(new_tls_state) : new_tls_state[i] = "r"
    /\ tl_calls = <<>>

\* C8: a vehicle enters cars_waiting_for_toll exactly in the toll step that
\* observes it unregistered on EDGE_BEFORE_TOLL past TOLL_BOOTH_AREA; that
\* step saves its mode and color and forces mode 512 and the marker color;
\* a saved entry is never overwritten; a vehicle at or before
\* TOLL_BOOTH_AREA is neither registered nor written.
C8_Registration ==
    [][TollStep =>
        \A v \in Veh :
            LET onEdge == get_edge(vehicles, v) = EDGE_BEFORE_TOLL
                new == /\ onEdge
                       /\ get_position(vehicles, v) > TOLL_BOOTH_AREA
                       /\ v \notin DOMAIN cars_waiting_for_toll
            IN  /\ new =>
                    /\ v \in DOMAIN cars_waiting_for_toll'
                    /\ cars_waiting_for_toll'[v] =
                            [lane_change_mode |-> vehicles[v].lane_change_mode,
                             color |-> vehicles[v].color]
                    /\ vehicles'[v].lane_change_mode = LC_MODE_DISABLED
                    /\ vehicles'[v].color = TOLL_COLOR
                /\ (~new /\ v \notin DOMAIN cars_waiting_for_toll)
                        => v \notin DOMAIN cars_waiting_for_toll'
                /\ (v \in DOMAIN cars_waiting_for_toll
                        /\ v \in DOMAIN cars_waiting_for_toll')
                        => cars_waiting_for_toll'[v] = cars_waiting_for_toll[v]
                /\ (onEdge /\ get_position(vehicles, v) <= TOLL_BOOTH_AREA) =>
                    /\ v \notin DOMAIN cars_waiting_for_toll'
                    /\ calls'[v] = <<>>
                    /\ vehicles'[v] = vehicles[v]]_vars

\* a vehicle registered by the last step, while another one stands at the
\* threshold and is left alone
C8_Witness ==
    \E v \in Veh :
        /\ Len(CallsBy(calls[v], "toll_register")) = 1
        /\ v \in DOMAIN cars_waiting_for_toll
        /\ cars_waiting_for_toll[v].color \in OrigColors
        /\ cars_waiting_for_toll[v].lane_change_mode \in OrigModes
        /\ vehicles[v].color = TOLL_COLOR
        /\ vehicles[v].lane_change_mode = LC_MODE_DISABLED
        /\ \E w \in Veh \ {v} :
            /\ get_edge(vehicles, w) = EDGE_BEFORE_TOLL
            /\ get_position(vehicles, w) <= TOLL_BOOTH_AREA
            /\ w \notin DOMAIN cars_waiting_for_toll

\* the vehicles a toll step finds registered on EDGE_BEFORE_TOLL past the
\* signal threshold in a lane, and the wait the lane loop starts from
WaitingIn(lane) ==
    {v \in DOMAIN cars_waiting_for_toll :
        /\ get_edge(vehicles, v) = EDGE_BEFORE_TOLL
        /\ get_lane(vehicles, v) = lane
        /\ get_position(vehicles, v) > TOLL_SIGNAL_AREA}

ReleasedIn(lane) ==
    {v \in DOMAIN cars_waiting_for_toll :
        get_edge(vehicles, v) = EDGE_AFTER_TOLL /\ get_lane(vehicles, v) = lane}

\* C2: every vehicle entered into cars_waiting_for_toll or cars_before_ramp
\* is eventually removed from it (checked under FairSpec: the loop keeps
\* stepping and every vehicle keeps driving until it has left the network).
C2_EventuallyRemoved ==
    \A v \in Veh :
        /\ (v \in DOMAIN cars_waiting_for_toll) ~> (v \notin DOMAIN cars_waiting_for_toll)
        /\ (v \in DOMAIN cars_before_ramp) ~> (v \notin DOMAIN cars_before_ramp)

\* C3: in every ramp step, a vehicle of cars_before_ramp observed on
\* EDGE_AFTER_RAMP_METER gets the mode and color it had before it entered
\* the zone written back and leaves cars_before_ramp.
C3_RampRestoresOriginal ==
    [][RampStep =>
        \A v \in Veh :
            (v \in DOMAIN cars_before_ramp
                /\ get_edge(vehicles, v) = EDGE_AFTER_RAMP_METER) =>
                    /\ vehicles'[v].lane_change_mode = ramp_snapshot[v].lane_change_mode
                    /\ vehicles'[v].color = ramp_snapshot[v].color
                    /\ v \notin DOMAIN cars_before_ramp']_vars

\* C4 (for a lane with one waiting vehicle): the lane is marked green when
\* the remaining wait is <= 0, and otherwise marked red with the wait
\* decremented by one step.
C4_GreenAtZero ==
    [][TollStep =>
        \A lane \in 0..(NUM_TOLL_LANES - 1) :
            Cardinality(WaitingIn(lane)) = 1 =>
                LET wait == IF lane \in DOMAIN resampled'
                            THEN resampled'[lane] ELSE toll_wait_time[lane]
                IN  IF wait <= 0
                    THEN new_tls_state'[lane + 1] = "G"
                    ELSE /\ new_tls_state'[lane + 1] = "r"
                         /\ toll_wait_time'[lane] = wait - OneStep]_vars

\* C5: in a toll step the wait of a lane decreases by at most one step,
\* however many registered vehicles are past the signal threshold in it.
C5_DecrementedOncePerStep ==
    [][TollStep =>
        \A lane \in 0..(NUM_TOLL_LANES - 1) :
            LET wait == IF lane \in DOMAIN resampled'
                        THEN resampled'[lane] ELSE toll_wait_time[lane]
            IN  toll_wait_time'[lane] >= wait - OneStep]_vars

C9_MissingVehicleDropped ==
    phase = "sim" =>
        \A v \in (DOMAIN cars_waiting_for_toll) \cup (DOMAIN cars_before_ramp) :
            v \in get_ids(vehicles)

LaneChosen == lc_out.by # "none"

\* C10 as stated: the lane returned is never a lane whose estimated speed is
\* zero, unless the estimated speed of every lane is zero.
C10_NeverZeroLane ==
    LaneChosen =>
        (lc_out.v[lc_out.lane] = 0 => \A l \in LCLanes : lc_out.v[l] = 0)

\* C10 amended: the controller never switches to a lane whose estimated
\* speed is zero, unless the estimated speed of every lane is zero; it does
\* return the current lane, whatever its estimate, when the improvement is
\* not above speedThreshold or the draw fails.
C10_NeverSwitchesToZeroLane ==
    LaneChosen =>
        /\ (lc_out.lane # lc_in.cur /\ lc_out.v[lc_out.lane] = 0)
                => \A l \in LCLanes : lc_out.v[l] = 0
        /\ (~lc_out.draw \/ \A l \in LCLanes :
                    lc_out.v[l] - lc_out.v[lc_in.cur] <= speedThreshold)
                => lc_out.lane = lc_in.cur

\* the closure leaves a lane estimated zero for one that is not, while a
\* third lane is estimated zero too
C10_Witness ==
    /\ lc_out.by = "stochastic_lane_changer"
    /\ lc_out.lane # lc_in.cur
    /\ lc_out.v[lc_in.cur] = 0
    /\ lc_out.v[lc_out.lane] > 0
    /\ \E l \in LCLanes \ {lc_in.cur} : lc_out.v[l] = 0
\* the gaps of the controlled vehicle to the leader and follower of a lane
GapAhead(lane) == (lc_in.lead[lane] - lc_in.thisPos) % RingLength
GapBehind(lane) == (lc_in.thisPos - lc_in.trail[lane]) % RingLength
HasBoth(lane) == lc_in.lead[lane] # NoCar /\ lc_in.trail[lane] # NoCar

\* C11: every lane that has a leader and a follower is scored from its own
\* leader and follower: 0 when its forward gap is below gapForward or its
\* rear gap below gapBack, and the mean speed of its window otherwise; so
\* the class and the closure score a snapshot alike.
C11_ScoredPerLane ==
    LaneChosen =>
        \A lane \in LCLanes :
            HasBoth(lane) =>
                lc_out.v[lane] =
                    IF GapAhead(lane) < gapForward \/ GapBehind(lane) < gapBack
                    THEN 0
                    ELSE lc_in.mean[lane]

\* C12: the lane returned is the current lane or the lowest-index lane of
\* maximal estimate; it is the latter only when that lane is not the current
\* one, the improvement exceeds speedThreshold and the draw is below prob;
\* with an improvement of at most speedThreshold the current lane is
\* returned whatever the draw.
C12_SwitchRule ==
    LaneChosen =>
        LET v == lc_out.v
            best == CHOOSE l \in LCLanes :
                        /\ \A k \in LCLanes : v[k] <= v[l]
                        /\ \A k \in LCLanes : k < l => v[k] < v[l]
        IN  /\ lc_out.lane \in {lc_in.cur, best}
            /\ lc_out.lane # lc_in.cur =>
                    /\ v[best] - v[lc_in.cur] > speedThreshold
                    /\ lc_out.draw
            /\ v[best] - v[lc_in.cur] <= speedThreshold => lc_out.lane = lc_in.cur

\* a switch to the lower of two lanes of equal, maximal estimate
C12_Witness ==
    /\ LaneChosen
    /\ lc_out.lane # lc_in.cur
    /\ \E k \in LCLanes :
        /\ k > lc_out.lane
        /\ k # lc_in.cur
        /\ lc_out.v[k] = lc_out.v[lc_out.lane]

\* C15: every lane in which the vehicle has no leader or no follower is
\* estimated at the vehicle's max_speed.
C15_EmptyLaneMaxSpeed ==
    LaneChosen =>
        \A lane \in LCLanes :
            ~HasBoth(lane) => lc_out.v[lane] = lc_in.max_speed
AggressiveChose == lc_out.by = "AggressiveLaneChanger"
SafeAggressiveChose == lc_out.by = "SafeAggressiveLaneChanger"
SlowEnough == 100 * lc_in.speed < 75 * lc_in.target_velocity
AllLanes == 0..(lc_in.lanes - 1)

\* the lowest lane among lanes whose forward headway is the largest of lanes
WidestOf(lanes) ==
    CHOOSE l \in lanes :
        /\ \A k \in lanes : lc_in.headways[k] <= lc_in.headways[l]
        /\ \A k \in lanes : k < l => lc_in.headways[k] < lc_in.headways[l]

\* C13: AggressiveLaneChanger returns a lane other than the current one only
\* if the speed is below threshold * target_velocity, the lane has the
\* largest forward headway of all lanes and its reverse headway is at least
\* 5; when the reverse headway of the lane of largest forward headway is
\* below 5, or the speed is not below the threshold, it returns the current
\* lane.
C13_AggressiveSwitch ==
    AggressiveChose =>
        /\ lc_out.lane # lc_in.cur =>
                /\ SlowEnough
                /\ lc_out.lane = WidestOf(AllLanes)
                /\ lc_in.reverse_headways[lc_out.lane] >= 5
        /\ (~SlowEnough \/ lc_in.reverse_headways[WidestOf(AllLanes)] < 5) =>
                lc_out.lane = lc_in.cur

\* a switch to a lane two lanes away whose reverse headway is exactly 5
C13_Witness ==
    /\ AggressiveChose
    /\ lc_out.lane = lc_in.cur + 2
    /\ lc_in.reverse_headways[lc_out.lane] = 5

\* the current lane and the lanes next to it
Adjacent == {l \in AllLanes : l - lc_in.cur \in {-1, 0, 1}}

\* C14: whatever the lane count, the current lane and the headways,
\* SafeAggressiveLaneChanger returns a lane of 0..lanes-1 at most one lane
\* from the current one: the adjacent-or-current lane of largest forward
\* headway when the speed is below the threshold and that lane's reverse
\* headway is at least 8, the current lane otherwise.
C14_SafeAggressiveLane ==
    SafeAggressiveChose =>
        /\ lc_out.lane \in Adjacent
        /\ lc_out.lane =
               IF SlowEnough /\ lc_in.reverse_headways[WidestOf(Adjacent)] >= 8
               THEN WidestOf(Adjacent)
               ELSE lc_in.cur

\* from the last lane of a scenario of several lanes, a switch to the lane
\* below it
C14_Witness ==
    /\ SafeAggressiveChose
    /\ lc_in.lanes > 1
    /\ lc_in.cur = lc_in.lanes - 1
    /\ lc_out.lane = lc_in.cur - 1
GapsMeasured == lc_out.by = "gaps"

C17_Switches ==
    [][phase = "ctl" =>
        /\ ran' = (IF disable_tb THEN <<>> ELSE <<"toll">>)
                    \o (IF disable_ramp_metering THEN <<>> ELSE <<"ramp">>)
        /\ ~disable_tb => new_tls_state' # <<>>
        /\ disable_tb =>
                /\ cars_waiting_for_toll' = cars_waiting_for_toll
                /\ toll_wait_time' = toll_wait_time
                /\ tl_state' = tl_state
                /\ tl_calls' = <<>>
                /\ new_tls_state' = <<>>
                /\ \A v \in Veh : CallsBy(calls'[v], "toll_register") = <<>>
        /\ disable_ramp_metering =>
                /\ cars_before_ramp = <<>>
                /\ cars_before_ramp' = <<>>
                /\ \A v \in Veh : CallsBy(calls'[v], "ramp_register") = <<>>]_vars

\* with the toll control disabled, a step that leaves a vehicle past the
\* toll threshold unregistered
C17_Witness ==
    /\ phase = "sim"
    /\ disable_tb
    /\ \E v \in get_ids(vehicles) :
        /\ get_edge(vehicles, v) = EDGE_BEFORE_TOLL
        /\ get_position(vehicles, v) > TOLL_BOOTH_AREA
        /\ v \notin DOMAIN cars_waiting_for_toll
\* a vehicle in the zone of the ramp meter
InRampZone(v) ==
    /\ get_edge(vehicles, v) = EDGE_BEFORE_RAMP_METER
    /\ get_position(vehicles, v) > RAMP_METER_AREA

\* C19: the toll control leaves cars_before_ramp alone; the ramp control
\* leaves cars_waiting_for_toll, toll_wait_time and tl_state alone, and
\* registers a vehicle in its zone exactly when the vehicle is not in
\* cars_before_ramp.
C19_RegistryIsolation ==
    [][phase = "ctl" =>
        /\ disable_ramp_metering => cars_before_ramp' = cars_before_ramp
        /\ disable_tb =>
                /\ cars_waiting_for_toll' = cars_waiting_for_toll
                /\ toll_wait_time' = toll_wait_time
                /\ tl_state' = tl_state
        /\ ~disable_ramp_metering =>
                \A v \in Veh :
                    InRampZone(v) =>
                        (CallsBy(calls'[v], "ramp_register") # <<>>
                            <=> v \notin DOMAIN cars_before_ramp)]_vars

\* C20: in every reachable state every entry of toll_wait_time is at least
\* minus one step.
C20_TimerLowerBound ==
    \A lane \in DOMAIN toll_wait_time : toll_wait_time[lane] >= -OneStep

\* a timer that was zero and has been decremented once
C20_Witness ==
    /\ phase = "sim"
    /\ \E lane \in DOMAIN toll_wait_time :
        /\ toll_wait_time[lane] = -OneStep
        /\ \E v \in DOMAIN cars_waiting_for_toll : get_lane(vehicles, v) = lane
\* the signal of a lane in the last string pushed
RedIn(lane) == tl_state # <<>> /\ tl_state[lane + 1] = "r"

C21_IdleLaneGreen ==
    [][TollStep =>
        \A lane \in 0..(NUM_TOLL_LANES - 1) :
            WaitingIn(lane) = {} =>
                /\ new_tls_state'[lane + 1] = "G"
                /\ toll_wait_time'[lane] =
                       IF lane \in DOMAIN resampled'
                       THEN resampled'[lane] ELSE toll_wait_time[lane]]_vars

\* a vehicle registered past position 120 by the last toll control, alone in
\* a lane whose wait is positive
C21_Witness ==
    /\ phase = "sim"
    /\ \E v \in Veh :
        /\ Len(CallsBy(calls[v], "toll_register")) = 1
        /\ get_position(vehicles, v) > TOLL_SIGNAL_AREA
        /\ toll_wait_time[get_lane(vehicles, v)] > 0
        /\ new_tls_state[get_lane(vehicles, v) + 1] = "G"
        /\ \A w \in Veh \ {v} : get_lane(vehicles, w) # get_lane(vehicles, v)
\* C22: after every toll step, tl_state is the string computed in that step
\* and the string the simulator's light was last set to; the first toll step
\* after construction, which finds tl_state empty, pushes.
C22_SignalStateConsistent ==
    [][TollStep =>
        /\ tl_state' = new_tls_state'
        /\ tl_state' = tl_light'
        /\ tl_state = <<>> => Len(tl_calls') = 1]_vars

\* a toll step that computed the string already in tl_state and pushed
\* nothing, after an earlier one that had turned a lane red
C22_Witness ==
    /\ phase = "sim"
    /\ new_tls_state # <<>>
    /\ tl_calls = <<>>
    /\ tl_light = tl_state
    /\ \E i \in DOMAIN tl_state : tl_state[i] = "r"
====
